---- MODULE Spec2Model ----
(***************************************************************************)
(* Volume-breakout pipeline of src/src/analysis/metrics.py, driven as in   *)
(* the "Run Analysis" handler of src/src/app.py (lines 266-274), with the  *)
(* fetch of src/src/data/stock_data.py and the session state of the app.   *)
(*                                                                         *)
(* A DataFrame is a function from column names to columns; a column is a   *)
(* sequence over the row positions 1..n (pandas position p is index p+1).  *)
(* A float is an extended rational <<n, d>>: d > 0 is the reduced fraction *)
(* n/d, <<0,0>> is NaN, <<1,0>> is +inf and <<-1,0>> is -inf, with the     *)
(* IEEE-754 rules for division by zero, infinities and NaN.  The inputs of *)
(* the model are small integers, for which the comparisons the code makes  *)
(* on doubles agree with the comparisons on the exact quotients.           *)
(***************************************************************************)
EXTENDS Integers, Sequences, FiniteSets, TLC

VARIABLES data, df, lookback_period, volume_threshold, price_threshold,
          holding_period, summary_df, signals_df, pc,
          start_date, end_date, today,
          selected_ticker, temp_ticker, previous_ticker, session_data

vars == <<data, df, lookback_period, volume_threshold, price_threshold,
          holding_period, summary_df, signals_df, pc,
          start_date, end_date, today,
          selected_ticker, temp_ticker, previous_ticker, session_data>>

(*************************** bounds of the model ***************************)
\* longest input series
MaxRows == 5

\* values a row's volume and close are drawn from: volumes are non-negative
\* integers, prices are positive
Volumes == 0 .. 2
Closes == 1 .. 2
\* the same with a price of zero allowed (and no zero volume)
PositiveVolumes == 1 .. 2
ClosesWithZero == 0 .. 2
\* the volumes of the runs that vary the volume column alone
MoreVolumes == 0 .. 3
\* the longest table of the runs that vary the close column alone
MaxPriceRows == 6
\* the closes of the runs that vary the close column alone
MoreCloses == 1 .. 3
\* the longest malformed table and the dates its rows are drawn from
MaxMalformedRows == 3
MalformedDays == {4, 5, 8}
\* lookback windows, holding periods and thresholds that are tried
Lookbacks == 1 .. 2
Holdings == 1 .. 2
VolumeThresholds == {<<0, 1>>}
PriceThresholds == {<<0, 1>>}
\* the day the series starts on: day 1 is a Monday, so 4 is a Thursday and
\* the series crosses a weekend after its second row
StartDays == {4}

(************************* floats: extended rationals **********************)
NaN == <<0, 0>>
PosInf == <<1, 0>>
NegInf == <<-1, 0>>

Abs(n) == IF n < 0 THEN -n ELSE n
Sgn(n) == IF n < 0 THEN -1 ELSE IF n > 0 THEN 1 ELSE 0

RECURSIVE GCD(_, _)
GCD(a, b) == IF b = 0 THEN a ELSE GCD(b, a % b)

\* the float n/d, for d # 0
Ratio(n, d) ==
    LET g == GCD(Abs(n), Abs(d))
    IN  <<(Sgn(d) * n) \div g, Abs(d) \div g>>

\* the float of an integer
R(n) == <<n, 1>>

IsNaN(x) == x = NaN
IsInf(x) == x[2] = 0 /\ x[1] # 0
IsFinite(x) == x[2] # 0
\* pandas isna / notna
NotNa(x) == ~IsNaN(x)

FAdd(a, b) ==
    IF IsNaN(a) \/ IsNaN(b) THEN NaN
    ELSE IF IsInf(a) /\ IsInf(b) THEN (IF a = b THEN a ELSE NaN)
    ELSE IF IsInf(a) THEN a
    ELSE IF IsInf(b) THEN b
    ELSE Ratio(a[1] * b[2] + b[1] * a[2], a[2] * b[2])

FNeg(a) == <<-a[1], a[2]>>

FSub(a, b) == FAdd(a, FNeg(b))

FMul(a, b) ==
    IF IsNaN(a) \/ IsNaN(b) THEN NaN
    ELSE IF IsInf(a) \/ IsInf(b)
         THEN (IF a[1] = 0 \/ b[1] = 0 THEN NaN
               ELSE <<Sgn(a[1]) * Sgn(b[1]), 0>>)
    ELSE Ratio(a[1] * b[1], a[2] * b[2])

\* IEEE division; the zeros of the model are +0.0
FDiv(a, b) ==
    IF IsNaN(a) \/ IsNaN(b) THEN NaN
    ELSE IF IsInf(a) THEN (IF IsInf(b) THEN NaN
                           ELSE <<a[1] * (IF b[1] < 0 THEN -1 ELSE 1), 0>>)
    ELSE IF IsInf(b) THEN R(0)
    ELSE IF b[1] = 0 THEN <<Sgn(a[1]), 0>>
    ELSE Ratio(a[1] * b[2], a[2] * b[1])

\* a > b on floats: false when an operand is NaN
FGt(a, b) ==
    IF IsNaN(a) \/ IsNaN(b) THEN FALSE
    ELSE IF IsInf(a) /\ IsInf(b) THEN a[1] > b[1]
    ELSE a[1] * b[2] > b[1] * a[2]

\* a < b: a return of exactly zero is no loss
FLe_strict(a, b) ==
    IF IsNaN(a) \/ IsNaN(b) THEN FALSE ELSE FGt(b, a)

FLe(a, b) ==
    IF IsNaN(a) \/ IsNaN(b) THEN FALSE ELSE ~FGt(a, b)

(****************************** columns ************************************)
Rows(frame) == 1 .. Len(frame["Date"])

RECURSIVE SumOver(_, _, _)
\* col[lo] + ... + col[hi], as floats
SumOver(col, lo, hi) ==
    IF lo > hi THEN R(0) ELSE FAdd(SumOver(col, lo, hi - 1), col[hi])

\* min_periods = 1: a mean over the rows there are
RollingMean_min_periods_1(col, window) ==
    [i \in 1 .. Len(col) |->
        LET lo == IF i >= window THEN i - window + 1 ELSE 1
        IN  FDiv(SumOver([j \in 1 .. Len(col) |-> R(col[j])], lo, i),
                 R(i - lo + 1))]

\* Series.rolling(window, min_periods = window).mean() of an integer column
RollingMean(col, window) ==
    [i \in 1 .. Len(col) |->
        IF i >= window
        THEN FDiv(SumOver([j \in 1 .. Len(col) |-> R(col[j])],
                          i - window + 1, i), R(window))
        ELSE NaN]

\* the shift forgotten: the window ends on the current row
Shift1_missing(col) == col

\* Series.shift(1)
Shift1(col) ==
    [i \in 1 .. Len(col) |-> IF i = 1 THEN NaN ELSE col[i - 1]]

\* the replacement forgotten: an infinite quotient stays
ReplaceInf_missing(col) == col

\* Series.replace([inf, -inf], nan)
ReplaceInf(col) ==
    [i \in 1 .. Len(col) |-> IF IsInf(col[i]) THEN NaN ELSE col[i]]

WithColumn(frame, name, col) == (name :> col) @@ frame

(****************************** the stages *********************************)
calculate_volume_metrics(frame, lookback) ==
    LET ma == Shift1(RollingMean(frame["Volume"], lookback))
        ratio == ReplaceInf([i \in Rows(frame) |->
                                FDiv(R(frame["Volume"][i]), ma[i])])
    IN  WithColumn(WithColumn(frame, "Volume_MA", ma), "Volume_Ratio", ratio)

\* the undefined first row dropped after the change is computed
calculate_price_changes_dropna(frame) ==
    LET close == [i \in Rows(frame) |-> R(frame["Close"][i])]
        prev == Shift1(close)
        pct == [i \in Rows(frame) |->
                   FMul(FSub(FDiv(close[i], prev[i]), R(1)), R(100))]
        full == WithColumn(frame, "Price_Change_Pct", pct)
    IN  [c \in DOMAIN full |-> Tail(full[c])]

\* Series.pct_change() * 100
calculate_price_changes(frame) ==
    LET close == [i \in Rows(frame) |-> R(frame["Close"][i])]
        prev == Shift1(close)
        pct == [i \in Rows(frame) |->
                   FMul(FSub(FDiv(close[i], prev[i]), R(1)), R(100))]
    IN  WithColumn(frame, "Price_Change_Pct", pct)

\* the volume comparison made with >= instead of >
identify_breakout_signals_ge(frame, vol_threshold, price_change_threshold) ==
    LET volume_ratio_threshold == FAdd(R(1), vol_threshold)
        volume_condition == [i \in Rows(frame) |->
            ~FGt(volume_ratio_threshold, frame["Volume_Ratio"][i])
            /\ NotNa(frame["Volume_Ratio"][i])]
        price_condition == [i \in Rows(frame) |->
            FGt(frame["Price_Change_Pct"][i], price_change_threshold)]
    IN  WithColumn(frame, "Is_Breakout",
            [i \in Rows(frame) |-> volume_condition[i] /\ price_condition[i]])

identify_breakout_signals(frame, vol_threshold, price_change_threshold) ==
    LET volume_ratio_threshold == FAdd(R(1), vol_threshold)
        volume_condition == [i \in Rows(frame) |->
            FGt(frame["Volume_Ratio"][i], volume_ratio_threshold)]
        price_condition == [i \in Rows(frame) |->
            FGt(frame["Price_Change_Pct"][i], price_change_threshold)]
    IN  WithColumn(frame, "Is_Breakout",
            [i \in Rows(frame) |-> volume_condition[i] /\ price_condition[i]])

\* pd.NaT, the missing date; dates are day numbers >= 1
NaT == 0

RECURSIVE IndexWhere(_, _, _)
\* the index labels (dates) of the rows i .. n whose flag is set, in row order
IndexWhere(frame, flags, i) ==
    IF i > Len(flags) THEN <<>>
    ELSE (IF flags[i] THEN <<frame["Date"][i]>> ELSE <<>>)
         \o IndexWhere(frame, flags, i + 1)

\* DatetimeIndex.get_loc(day): the position of a label of the unique index
GetLoc(frame, day) == CHOOSE i \in Rows(frame) : frame["Date"][i] = day

\* the exit looked up holding calendar days, not rows, after the signal
ForwardReturnOf_calendar(frame, day, holding) ==
    LET loc == GetLoc(frame, day)
        entry_price == R(frame["Close"][loc])
    IN  IF \E j \in Rows(frame) : frame["Date"][j] = day + holding
        THEN LET exit_idx == GetLoc(frame, day + holding)
                 exit_price == R(frame["Close"][exit_idx])
             IN  [frame EXCEPT !["Exit_Date"][loc] = frame["Date"][exit_idx],
                               !["Exit_Price"][loc] = exit_price,
                               !["Forward_Returns"][loc] =
                                   FMul(FDiv(FSub(exit_price, entry_price),
                                             entry_price), R(100))]
        ELSE frame

\* one iteration of the loop over the breakout days; on a label that is not
\* unique get_loc gives a slice or a mask, the arithmetic on it raises and
\* the except clause skips the signal
ForwardReturnOf(frame, day, holding) ==
    LET entry_price == R(frame["Close"][GetLoc(frame, day)])
        exit_idx == GetLoc(frame, day) + holding
    IN  IF Cardinality({i \in Rows(frame) : frame["Date"][i] = day}) > 1
        THEN frame
        ELSE IF exit_idx <= Len(frame["Close"])
        THEN LET exit_date == frame["Date"][exit_idx]
                 exit_price == R(frame["Close"][exit_idx])
                 returns == FMul(FDiv(FSub(exit_price, entry_price),
                                      entry_price), R(100))
                 loc == GetLoc(frame, day)
             IN  [frame EXCEPT !["Exit_Date"][loc] = exit_date,
                               !["Exit_Price"][loc] = exit_price,
                               !["Forward_Returns"][loc] = returns]
        ELSE frame

RECURSIVE ForwardReturnLoop(_, _, _)
RECURSIVE ForwardReturnLoop_no_overlap(_, _, _)
\* one position at a time: a signal inside the holding window of the signal
\* evaluated before it is skipped
ForwardReturnLoop_no_overlap(frame, days, holding) ==
    IF days = <<>> THEN frame
    ELSE ForwardReturnLoop_no_overlap(
             ForwardReturnOf(frame, Head(days), holding),
             SelectSeq(Tail(days),
                       LAMBDA d : GetLoc(frame, d)
                                      >= GetLoc(frame, Head(days)) + holding),
             holding)

\* for day in breakout_days
ForwardReturnLoop(frame, days, holding) ==
    IF days = <<>> THEN frame
    ELSE ForwardReturnLoop(ForwardReturnOf(frame, Head(days), holding),
                           Tail(days), holding)

\* the return and the exit price initialised with 0 instead of NaN
calculate_forward_returns_zero_init(frame, holding) ==
    LET init == WithColumn(WithColumn(WithColumn(frame,
                    "Forward_Returns", [i \in Rows(frame) |-> R(0)]),
                    "Exit_Date", [i \in Rows(frame) |-> NaT]),
                    "Exit_Price", [i \in Rows(frame) |-> R(0)])
        breakout_days == IndexWhere(init, init["Is_Breakout"], 1)
    IN  ForwardReturnLoop(init, breakout_days, holding)

calculate_forward_returns(frame, holding) ==
    LET init == WithColumn(WithColumn(WithColumn(frame,
                    "Forward_Returns", [i \in Rows(frame) |-> NaN]),
                    "Exit_Date", [i \in Rows(frame) |-> NaT]),
                    "Exit_Price", [i \in Rows(frame) |-> NaN])
        breakout_days == IndexWhere(init, init["Is_Breakout"], 1)
    IN  ForwardReturnLoop(init, breakout_days, holding)

(*************************** formatted strings *****************************)
(* A string the code builds is <<sign, text, digits, unit>>: str(7) is     *)
(* <<"", "", 7, "">>, 'N/A' is <<"", "N/A", 0, "">>, and f"{x:.2f}%" is    *)
(* <<sign, "", hundredths, "%">>, e.g. "-1.05%" is <<"-", "", 105, "%">>,  *)
(* "inf%" is <<"", "inf", 0, "%">> and "nan%" is <<"", "nan", 0, "%">>.    *)
(***************************************************************************)
Str(n) == <<"", "", n, "">>
Text(t) == <<"", t, 0, "">>

\* the integer nearest to n/d (n >= 0, d > 0), ties to even
RoundHalfEven(n, d) ==
    LET q == n \div d
        r == n % d
    IN  IF 2 * r > d THEN q + 1
        ELSE IF 2 * r < d THEN q
        ELSE IF q % 2 = 0 THEN q ELSE q + 1

\* f"{x:.2f}" followed by the unit
Fixed2(x, unit) ==
    IF IsNaN(x) THEN <<"", "nan", 0, unit>>
    ELSE IF IsInf(x) THEN <<IF x[1] < 0 THEN "-" ELSE "", "inf", 0, unit>>
    ELSE <<IF x[1] < 0 THEN "-" ELSE "", "",
           RoundHalfEven(Abs(x[1]) * 100, x[2]), unit>>

\* the "+" forgotten: f"{value:.2f}%"
format_with_sign_plain(value) == Fixed2(value, "%")

format_with_sign(value) ==
    LET body == Fixed2(value, "%")
    IN  IF FGt(value, R(0)) THEN <<"+", body[2], body[3], body[4]>> ELSE body

\* Series.round(2)
Round2(x) ==
    IF ~IsFinite(x) THEN x
    ELSE Ratio(Sgn(x[1]) * RoundHalfEven(Abs(x[1]) * 100, x[2]), 100)

(************************ selections and statistics ************************)
RECURSIVE Where(_, _)
\* the positions i .. n of a boolean column that are set, ascending
Where(flags, i) ==
    IF i > Len(flags) THEN <<>>
    ELSE (IF flags[i] THEN <<i>> ELSE <<>>) \o Where(flags, i + 1)

\* DataFrame.dropna(subset = cols) on a selection of row positions
DropNa(frame, rows, cols) ==
    SelectSeq(rows, LAMBDA i : \A c \in cols : NotNa(frame[c][i]))

\* the values of a column on a selection of row positions
Take(col, rows) == [k \in 1 .. Len(rows) |-> col[rows[k]]]

RECURSIVE Sum(_)
Sum(series) ==
    IF series = <<>> THEN R(0)
    ELSE FAdd(Sum(SubSeq(series, 1, Len(series) - 1)), series[Len(series)])

\* Series.mean() of a non-empty series without NaN
Mean(series) == FDiv(Sum(series), R(Len(series)))

RECURSIVE Max(_)
Max(series) ==
    IF Len(series) = 1 THEN series[1]
    ELSE LET m == Max(Tail(series))
         IN  IF FGt(series[1], m) THEN series[1] ELSE m

RECURSIVE Min(_)
Min(series) ==
    IF Len(series) = 1 THEN series[1]
    ELSE LET m == Min(Tail(series))
         IN  IF FGt(m, series[1]) THEN series[1] ELSE m

safe_mean(series) == IF Len(series) > 0 THEN Mean(series) ELSE R(0)

\* Python's None
None == 0
\* None where a table is expected: a value that compares with tables
NoTable == [None |-> TRUE]

\* the placeholder with "0" days between signals instead of 'N/A'
EmptySummary_zero_days ==
    [Total_Breakout_Days |-> Str(0),
     Average_Return |-> <<"", "", 0, "%">>,
     Win_Rate |-> <<"", "", 0, "%">>,
     Best_Trade |-> <<"", "", 0, "%">>,
     Worst_Trade |-> <<"", "", 0, "%">>,
     Avg_Win_Size |-> <<"", "", 0, "%">>,
     Avg_Loss_Size |-> <<"", "", 0, "%">>,
     Avg_Days_Between_Signals |-> Str(0),
     Avg_Volume_Ratio |-> <<"", "", 0, "x">>,
     Max_Volume_Ratio |-> <<"", "", 0, "x">>,
     Min_Volume_Ratio |-> <<"", "", 0, "x">>,
     Avg_Price_Change |-> <<"", "", 0, "%">>,
     Max_Price_Change |-> <<"", "", 0, "%">>,
     Min_Price_Change |-> <<"", "", 0, "%">>,
     First_Signal_Date |-> None,
     Last_Signal_Date |-> None]

EmptySummary ==
    [Total_Breakout_Days |-> Str(0),
     Average_Return |-> <<"", "", 0, "%">>,
     Win_Rate |-> <<"", "", 0, "%">>,
     Best_Trade |-> <<"", "", 0, "%">>,
     Worst_Trade |-> <<"", "", 0, "%">>,
     Avg_Win_Size |-> <<"", "", 0, "%">>,
     Avg_Loss_Size |-> <<"", "", 0, "%">>,
     Avg_Days_Between_Signals |-> Text("N/A"),
     Avg_Volume_Ratio |-> <<"", "", 0, "x">>,
     Max_Volume_Ratio |-> <<"", "", 0, "x">>,
     Min_Volume_Ratio |-> <<"", "", 0, "x">>,
     Avg_Price_Change |-> <<"", "", 0, "%">>,
     Max_Price_Change |-> <<"", "", 0, "%">>,
     Min_Price_Change |-> <<"", "", 0, "%">>,
     First_Signal_Date |-> None,
     Last_Signal_Date |-> None]

\* the dropna forgotten: every breakout row is counted
SummaryRows_no_dropna(frame) == Where(frame["Is_Breakout"], 1)

\* the rows generate_breakout_summary keeps
SummaryRows(frame) ==
    DropNa(frame, Where(frame["Is_Breakout"], 1),
           {"Forward_Returns", "Volume_Ratio", "Price_Change_Pct"})

\* int(x) of a finite float: truncation towards zero
\* round(x): the nearest integer instead of the truncated one
IntOf_round(x) == (2 * x[1] + x[2]) \div (2 * x[2])

IntOf(x) == Sgn(x[1]) * (Abs(x[1]) \div x[2])

\* index.to_series().diff().dt.days without its first entry, which is NaT
\* and which mean() skips
DaysBetween(dates) ==
    [k \in 1 .. Len(dates) - 1 |-> R(dates[k + 1] - dates[k])]

\* DatetimeIndex.min() and .max()
IndexMin(dates) ==
    CHOOSE d \in {dates[k] : k \in 1 .. Len(dates)} :
        \A k \in 1 .. Len(dates) : d <= dates[k]
IndexMax(dates) ==
    CHOOSE d \in {dates[k] : k \in 1 .. Len(dates)} :
        \A k \in 1 .. Len(dates) : d >= dates[k]

generate_breakout_summary(frame) ==
    LET breakout_data == SummaryRows(frame)
        total_trades == Len(breakout_data)
        returns == Take(frame["Forward_Returns"], breakout_data)
        winning_returns == SelectSeq(returns, LAMBDA x : FGt(x, R(0)))
        losing_returns == SelectSeq(returns, LAMBDA x : FLe(x, R(0)))
        volume_ratios == Take(frame["Volume_Ratio"], breakout_data)
        price_changes == Take(frame["Price_Change_Pct"], breakout_data)
        dates == Take(frame["Date"], breakout_data)
    IN  IF total_trades = 0 THEN EmptySummary
        ELSE
    [Total_Breakout_Days |-> Str(total_trades),
     Average_Return |-> format_with_sign(safe_mean(returns)),
     Win_Rate |-> Fixed2(FMul(FDiv(R(Len(winning_returns)), R(total_trades)),
                              R(100)), "%"),
     Best_Trade |-> format_with_sign(Max(returns)),
     Worst_Trade |-> format_with_sign(Min(returns)),
     Avg_Win_Size |-> format_with_sign(safe_mean(winning_returns)),
     Avg_Loss_Size |-> format_with_sign(safe_mean(losing_returns)),
     Avg_Days_Between_Signals |->
         IF total_trades > 1 THEN Str(IntOf(safe_mean(DaysBetween(dates))))
         ELSE Text("N/A"),
     Avg_Volume_Ratio |-> Fixed2(safe_mean(volume_ratios), "x"),
     Max_Volume_Ratio |-> Fixed2(Max(volume_ratios), "x"),
     Min_Volume_Ratio |-> Fixed2(Min(volume_ratios), "x"),
     Avg_Price_Change |-> format_with_sign(safe_mean(price_changes)),
     Max_Price_Change |-> format_with_sign(Max(price_changes)),
     Min_Price_Change |-> format_with_sign(Min(price_changes)),
     First_Signal_Date |-> IndexMin(dates),
     Last_Signal_Date |-> IndexMax(dates)]

\* the dropna forgotten: every breakout row is reported
ReportRows_no_dropna(frame) == Where(frame["Is_Breakout"], 1)

\* the rows generate_signals_report keeps
ReportRows(frame) ==
    DropNa(frame, Where(frame["Is_Breakout"], 1), {"Forward_Returns"})

\* one row of the signals table, from row i of the annotated table
SignalRow(frame, i) ==
    [Signal_Date |-> frame["Date"][i],
     Entry_Price |-> Round2(R(frame["Close"][i])),
     Volume |-> frame["Volume"][i],
     Volume_MA_20 |-> IntOf(frame["Volume_MA"][i]),
     Volume_Ratio |-> Fixed2(Round2(frame["Volume_Ratio"][i]), "x"),
     Price_Change_Pct |-> format_with_sign(frame["Price_Change_Pct"][i]),
     Forward_Return |-> format_with_sign(frame["Forward_Returns"][i]),
     Exit_Date |-> frame["Exit_Date"][i],
     Exit_Price |-> Round2(frame["Exit_Price"][i])]

RECURSIVE InsertByDate(_, _)
InsertByDate(row, table) ==
    IF table = <<>> THEN <<row>>
    ELSE IF row.Signal_Date < Head(table).Signal_Date THEN <<row>> \o table
    ELSE <<Head(table)>> \o InsertByDate(row, Tail(table))

RECURSIVE SortIndex(_)
\* DataFrame.sort_index() of a table indexed by its signal dates (stable)
SortIndex(table) ==
    IF table = <<>> THEN <<>>
    ELSE InsertByDate(table[Len(table)],
                      SortIndex(SubSeq(table, 1, Len(table) - 1)))

\* Series.astype(int) raises on a NaN or an infinite value
AstypeIntRaises(frame) ==
    \E k \in 1 .. Len(ReportRows(frame)) :
        ~IsFinite(frame["Volume_MA"][ReportRows(frame)[k]])

\* the signals table of generate_signals_report
SignalsTable(frame) ==
    LET signals == ReportRows(frame)
    IN  SortIndex([k \in 1 .. Len(signals) |-> SignalRow(frame, signals[k])])

\* (summary_df, signals_df)
generate_signals_report(frame) ==
    <<generate_breakout_summary(frame), SignalsTable(frame)>>

(***************************** the input ***********************************)
IsWeekday(d) == (d - 1) % 7 < 5

NextTradingDay(d) ==
    IF IsWeekday(d + 1) THEN d + 1
    ELSE IF IsWeekday(d + 2) THEN d + 2 ELSE d + 3

RECURSIVE TradingDays(_, _)
\* n consecutive trading days from day `start` on
TradingDays(start, n) ==
    IF n = 0 THEN <<>>
    ELSE <<start>> \o TradingDays(NextTradingDay(start), n - 1)

\* a cleaned OHLCV table: unique ascending dates
Table(start, close, volume) ==
    [Date |-> TradingDays(start, Len(close)), Close |-> close,
     Volume |-> volume]

(************************** the analysis run *******************************)
\* the parameters of a run and the session's empty results
RunStarts ==
    /\ df = data
    /\ lookback_period \in Lookbacks
    /\ volume_threshold \in VolumeThresholds
    /\ price_threshold \in PriceThresholds
    /\ holding_period \in Holdings
    /\ summary_df = NoTable
    /\ signals_df = NoTable
    /\ session_data = NoTable
    /\ pc = "fetched"
    /\ start_date = data["Date"][1]
    /\ end_date = data["Date"][Len(data["Date"])]
    /\ today = data["Date"][Len(data["Date"])]
    /\ selected_ticker = "NVDA"
    /\ temp_ticker = "NVDA"
    /\ previous_ticker = "NVDA"

\* data = get_stock_data(...) has returned a table
InitWith(closes, volumes) ==
    /\ \E n \in 1 .. MaxRows, start \in StartDays :
          \E close \in [1 .. n -> closes], volume \in [1 .. n -> volumes] :
              data = Table(start, close, volume)
    /\ RunStarts

Init == InitWith(Closes, Volumes)

\* the same run on a table in which a close of zero may occur
InitZeroPrice == InitWith(ClosesWithZero, PositiveVolumes)

\* the same run on a table whose close rises every row, so that the volume
\* column alone decides which rows break out
InitVolume ==
    /\ \E n \in 1 .. MaxRows, start \in StartDays :
          \E volume \in [1 .. n -> MoreVolumes] :
              data = Table(start, [i \in 1 .. n |-> i], volume)
    /\ RunStarts

\* the same run on a table whose volume rises every row, so that the close
\* column alone decides which rows break out
InitPrice ==
    /\ \E n \in 1 .. MaxPriceRows, start \in StartDays :
          \E close \in [1 .. n -> MoreCloses] :
              data = Table(start, close, [i \in 1 .. n |-> i])
    /\ RunStarts

\* the dates of a table ascend strictly
StrictlyIncreasing(dates) ==
    \A k \in 1 .. Len(dates) - 1 : dates[k] < dates[k + 1]

\* the same run on a table that breaks the precondition of the stages: its
\* dates are repeated or out of order, or one of the columns the stages read
\* is missing
InitMalformed ==
    /\ \E n \in 1 .. MaxMalformedRows :
          \E dates \in [1 .. n -> MalformedDays], close \in [1 .. n -> Closes],
             volume \in [1 .. n -> PositiveVolumes] :
              \/ /\ ~StrictlyIncreasing(dates)
                 /\ data = [Date |-> dates, Close |-> close, Volume |-> volume]
              \/ /\ StrictlyIncreasing(dates)
                 /\ \/ data = [Date |-> dates, Close |-> close]
                    \/ data = [Date |-> dates, Volume |-> volume]
    /\ RunStarts

Params == <<data, lookback_period, volume_threshold, price_threshold,
            holding_period, start_date, end_date, today,
            selected_ticker, temp_ticker, previous_ticker>>

\* df['Volume'] raises KeyError on a table without the column
CalculateVolumeMetrics ==
    /\ pc = "fetched"
    /\ IF "Volume" \in DOMAIN data
       THEN /\ df' = calculate_volume_metrics(data, lookback_period)
            /\ pc' = "volume_metrics"
       ELSE /\ pc' = "raised"
            /\ UNCHANGED df
    /\ UNCHANGED <<Params, summary_df, signals_df, session_data>>

\* df['Close'] raises KeyError on a table without the column
CalculatePriceChanges ==
    /\ pc = "volume_metrics"
    /\ IF "Close" \in DOMAIN df
       THEN /\ df' = calculate_price_changes(df)
            /\ pc' = "price_changes"
       ELSE /\ pc' = "raised"
            /\ UNCHANGED df
    /\ UNCHANGED <<Params, summary_df, signals_df, session_data>>

IdentifyBreakoutSignals ==
    /\ pc = "price_changes"
    /\ df' = identify_breakout_signals(df, volume_threshold, price_threshold)
    /\ pc' = "breakout_signals"
    /\ UNCHANGED <<Params, summary_df, signals_df, session_data>>

CalculateForwardReturns ==
    /\ pc = "breakout_signals"
    /\ df' = calculate_forward_returns(df, holding_period)
    /\ pc' = "forward_returns"
    /\ UNCHANGED <<Params, summary_df, signals_df, session_data>>

\* st.session_state.data = df, then the report is generated and stored
GenerateSignalsReport ==
    /\ pc = "forward_returns"
    /\ session_data' = df
    /\ IF AstypeIntRaises(df)
       THEN /\ pc' = "raised"
            /\ UNCHANGED <<summary_df, signals_df>>
       ELSE /\ summary_df' = generate_signals_report(df)[1]
            /\ signals_df' = generate_signals_report(df)[2]
            /\ pc' = "reported"
    /\ UNCHANGED <<Params, df>>

Next ==
    \/ CalculateVolumeMetrics
    \/ CalculatePriceChanges
    \/ IdentifyBreakoutSignals
    \/ CalculateForwardReturns
    \/ GenerateSignalsReport

Spec == Init /\ [][Next]_vars

SpecZeroPrice == InitZeroPrice /\ [][Next]_vars

SpecVolume == InitVolume /\ [][Next]_vars

SpecPrice == InitPrice /\ [][Next]_vars

SpecMalformed == InitMalformed /\ [][Next]_vars

(****************************** the fetch **********************************)
\* the symbols of the stock list and the largest holding period of the slider
Tickers == {"NVDA", "AAPL", "TSLA"}
MaxHoldingPeriod == 30
\* the start dates, end dates and days of use that are tried (day 1 is a
\* Monday)
StartDates == {1}
EndDates == 38 .. 47
Todays == {60, 100}

\* nyse.valid_days(start_date, end_date): the trading days of a closed range
valid_days(first, last) == {d \in first .. last : IsWeekday(d)}

validate_dates(start, end, holding) ==
    /\ ~(end <= start)
    /\ ~(Cardinality(valid_days(end, today)) <= holding)
    /\ ~(Cardinality(valid_days(start, end)) < 30)

RECURSIVE Ascending(_)
\* the days of a set in ascending order
Ascending(days) ==
    IF days = {} THEN <<>>
    ELSE LET first == CHOOSE d \in days : \A e \in days : d <= e
         IN  <<first>> \o Ascending(days \ {first})

\* the quotes the provider has for a symbol on a trading day: each symbol
\* has its own days of high volume and high close
QuotePhase(ticker, d) ==
    (d + CASE ticker = "NVDA" -> 0 [] ticker = "AAPL" -> 4 [] OTHER -> 7) % 9
QuoteClose(ticker, d) == IF QuotePhase(ticker, d) \in {0, 1} THEN 2 ELSE 1
QuoteVolume(ticker, d) == IF QuotePhase(ticker, d) = 0 THEN 3 ELSE 1

\* yf.download(ticker, start, end): the rows of the trading days from start
\* up to, not including, end, as far as they have happened
download(ticker, start, end) ==
    LET days == Ascending({d \in valid_days(start, end - 1) : d <= today})
    IN  [Date |-> days,
         Close |-> [k \in 1 .. Len(days) |-> QuoteClose(ticker, days[k])],
         Volume |-> [k \in 1 .. Len(days) |-> QuoteVolume(ticker, days[k])]]

\* clean_data leaves a table of complete rows with unique ascending dates
\* as it is
get_stock_data(ticker, start, end, holding) ==
    LET adjusted_end_date == end + (holding + 5)
        frame == download(ticker, start, adjusted_end_date)
    IN  IF Len(frame["Date"]) = 0 THEN NoTable ELSE frame

\* the positions at which the script waits for the user
Waiting == {"idle", "stopped", "reported", "raised"}

\* the pending selection of the selectbox taken for the run
ticker_pending == temp_ticker

\* the symbol the script works with: the applied one
ticker ==
    IF temp_ticker # selected_ticker THEN selected_ticker ELSE temp_ticker

\* the "Run Analysis" button, enabled on valid dates, up to the fetch: the
\* download may fail, and then the run stops
ClickRunAnalysis ==
    /\ pc \in Waiting
    /\ validate_dates(start_date, end_date, holding_period)
    /\ \E failed \in BOOLEAN :
          IF failed \/ get_stock_data(ticker, start_date, end_date,
                                      holding_period) = NoTable
          THEN /\ pc' = "stopped"
               /\ UNCHANGED <<data, df>>
          ELSE /\ data' = get_stock_data(ticker, start_date, end_date,
                                         holding_period)
               /\ df' = data'
               /\ pc' = "fetched"
    /\ UNCHANGED <<lookback_period, volume_threshold, price_threshold,
                   holding_period, start_date, end_date, today,
                   selected_ticker, temp_ticker, previous_ticker,
                   summary_df, signals_df, session_data>>

\* the app with its date inputs and sliders set, before a run
InitFetch ==
    /\ data = NoTable
    /\ df = NoTable
    /\ lookback_period = 20
    /\ volume_threshold \in VolumeThresholds
    /\ price_threshold \in PriceThresholds
    /\ holding_period \in 1 .. MaxHoldingPeriod
    /\ summary_df = NoTable
    /\ signals_df = NoTable
    /\ session_data = NoTable
    /\ pc = "idle"
    /\ start_date \in StartDates
    /\ end_date \in EndDates
    /\ today \in Todays
    /\ selected_ticker = "NVDA"
    /\ temp_ticker = "NVDA"
    /\ previous_ticker = "NVDA"

SpecFetch == InitFetch /\ [][ClickRunAnalysis]_vars

(***************************** the session *********************************)
\* the selectbox is set to another stock; the script reruns with no button
\* pressed
SelectStock ==
    /\ pc \in Waiting
    /\ \E t \in Tickers \ {temp_ticker} : temp_ticker' = t
    /\ UNCHANGED <<data, df, lookback_period, volume_threshold,
                   price_threshold, holding_period, summary_df, signals_df,
                   pc, start_date, end_date, today, selected_ticker,
                   previous_ticker, session_data>>

\* the "Apply Stock Selection" button
ApplyStockSelection ==
    /\ pc \in Waiting
    /\ IF temp_ticker # selected_ticker
       THEN /\ session_data' = NoTable
            /\ summary_df' = NoTable
            /\ signals_df' = NoTable
            /\ previous_ticker' = selected_ticker
            /\ selected_ticker' = temp_ticker
       ELSE UNCHANGED <<session_data, summary_df, signals_df,
                        previous_ticker, selected_ticker>>
    /\ UNCHANGED <<data, df, lookback_period, volume_threshold,
                   price_threshold, holding_period, pc, start_date, end_date,
                   today, temp_ticker>>

\* a session of the app on a fixed date range
InitSession ==
    /\ InitFetch
    /\ holding_period \in Holdings
    /\ end_date = 40
    /\ today = 100

NextSession ==
    \/ SelectStock
    \/ ApplyStockSelection
    \/ ClickRunAnalysis
    \/ Next

SpecSession == InitSession /\ [][NextSession]_vars

(******************************* claims ************************************)
(* Row positions are 1-based here: row t of the pandas table is index t+1, *)
(* so "t >= lookback" reads i > lookback_period and "i + holding_period <  *)
(* len" reads i + holding_period <= Len.                                   *)
(***************************************************************************)
Has(column) == column \in DOMAIN df
N == Len(data["Close"])

RECURSIVE IntSum(_, _, _)
\* col[lo] + ... + col[hi] of an integer column
IntSum(col, lo, hi) ==
    IF lo > hi THEN 0 ELSE col[hi] + IntSum(col, lo, hi - 1)

\* the float x is the exact quotient n/d (d > 0)
IsQuotient(x, n, d) == x[2] > 0 /\ x[1] * d = n * x[2]

\* C1: once calculate_volume_metrics has run, the baseline of every row
\* with at least lookback_period rows before it is the arithmetic mean of
\* the lookback_period volumes just before it, and the baseline and the
\* ratio of every earlier row are undefined.
C1_BaselineIsTrailingMean ==
    Has("Volume_MA") =>
        \A i \in 1 .. N :
            IF i > lookback_period
            THEN IsQuotient(df["Volume_MA"][i],
                            IntSum(data["Volume"], i - lookback_period, i - 1),
                            lookback_period)
            ELSE IsNaN(df["Volume_MA"][i]) /\ IsNaN(df["Volume_Ratio"][i])

\* a window of two different volumes has been averaged, in a table that
\* also has rows without enough history
C1_Witness ==
    /\ Has("Volume_MA")
    /\ lookback_period = 2
    /\ N > 3
    /\ data["Volume"][2] # data["Volume"][3]
    /\ data["Volume"][4] # data["Volume"][3]
    /\ IsFinite(df["Volume_MA"][4])

\* the table with the volume of row t replaced by w
Perturbed(t, w) == [data EXCEPT !["Volume"][t] = w]

\* C2: no look-ahead: replacing the volume of any one row t by any other
\* value leaves the baseline of row t and of every row before it as it is.
C2_NoLookAhead ==
    pc = "volume_metrics" =>
        \A t \in 1 .. N : \A w \in MoreVolumes \ {data["Volume"][t]} :
            LET other == calculate_volume_metrics(Perturbed(t, w),
                                                  lookback_period)
            IN  \A r \in 1 .. t :
                    other["Volume_MA"][r] = df["Volume_MA"][r]

\* a row with a defined baseline whose volume, once perturbed, changes its
\* ratio and the baseline of the next row
C2_Witness ==
    /\ pc = "volume_metrics"
    /\ \E t \in 1 .. N - 1 : \E w \in MoreVolumes :
          LET other == calculate_volume_metrics(Perturbed(t, w),
                                                lookback_period)
          IN  /\ IsFinite(df["Volume_MA"][t])
              /\ other["Volume_Ratio"][t] # df["Volume_Ratio"][t]
              /\ other["Volume_MA"][t + 1] # df["Volume_MA"][t + 1]

\* the float x is defined and strictly above the number n/d (d > 0)
Above(x, n, d) == x = PosInf \/ (x[2] > 0 /\ x[1] * d > n * x[2])

\* the volume ratio of row i is above / at 1 + volume_threshold
RatioAbove(i) ==
    Above(df["Volume_Ratio"][i], volume_threshold[2] + volume_threshold[1],
          volume_threshold[2])
RatioAtThreshold(i) ==
    IsQuotient(df["Volume_Ratio"][i],
               volume_threshold[2] + volume_threshold[1], volume_threshold[2])
\* the price change of row i is above / at price_threshold
PriceAbove(i) ==
    Above(df["Price_Change_Pct"][i], price_threshold[1], price_threshold[2])
PriceAtThreshold(i) ==
    IsQuotient(df["Price_Change_Pct"][i], price_threshold[1],
               price_threshold[2])

Evaluable(i) == df["Is_Breakout"][i] /\ i + holding_period <= N

\* C4: once calculate_forward_returns has run, every breakout row i that
\* has a row holding_period positions after it records that row's date and
\* close as its exit and (exit close - close[i]) / close[i] * 100 as its
\* forward return; the distance is in rows, whatever the calendar says.
C4_ExitIsHoldingRowsLater ==
    Has("Forward_Returns") =>
        \A i \in 1 .. N :
            Evaluable(i) =>
                /\ df["Exit_Date"][i] = data["Date"][i + holding_period]
                /\ df["Exit_Price"][i] =
                       <<data["Close"][i + holding_period], 1>>
                /\ IsQuotient(df["Forward_Returns"][i],
                       100 * (data["Close"][i + holding_period]
                              - data["Close"][i]),
                       data["Close"][i])

\* a breakout held over the weekend: its exit is holding_period rows and
\* more than holding_period days later, and its return is not zero
C4_Witness ==
    /\ Has("Forward_Returns")
    /\ \E i \in 1 .. N :
          /\ Evaluable(i)
          /\ df["Exit_Date"][i] - data["Date"][i] > holding_period
          /\ df["Forward_Returns"][i] # R(0)

\* C5: once calculate_forward_returns has run, the forward return, the
\* exit date and the exit price of a row are all defined when the row is a
\* breakout with a row holding_period positions after it, and all
\* undefined (not zero) for every other row; the run does not fail.
C5_DefinedExactlyWhenEvaluable ==
    /\ pc # "raised"
    /\ Has("Forward_Returns") =>
          \A i \in 1 .. N :
              IF Evaluable(i)
              THEN /\ NotNa(df["Forward_Returns"][i])
                   /\ df["Exit_Date"][i] # NaT
                   /\ NotNa(df["Exit_Price"][i])
              ELSE /\ IsNaN(df["Forward_Returns"][i])
                   /\ df["Exit_Date"][i] = NaT
                   /\ IsNaN(df["Exit_Price"][i])

\* a finished run whose table has an evaluated breakout, a breakout too
\* near the end of the series and a row that is no breakout
C5_Witness ==
    /\ pc = "reported"
    /\ \E i \in 1 .. N : Evaluable(i)
    /\ \E i \in 1 .. N : df["Is_Breakout"][i] /\ i + holding_period > N
    /\ \E i \in 2 .. N : ~df["Is_Breakout"][i]

\* the breakout rows with a defined forward return
Evaluated ==
    {i \in 1 .. N : df["Is_Breakout"][i] /\ NotNa(df["Forward_Returns"][i])}

\* the signal dates of the signals table
SignalDates == {signals_df[k].Signal_Date : k \in 1 .. Len(signals_df)}

\* C6: the signals table of a finished run has exactly one row for each
\* breakout row with a defined forward return and no other row, in
\* ascending order of signal date; a breakout whose exit lies past the end
\* of the series is not in it.
C6_ReportHoldsTheEvaluatedSignals ==
    pc = "reported" =>
        /\ Len(signals_df) = Cardinality(Evaluated)
        /\ SignalDates = {data["Date"][i] : i \in Evaluated}
        /\ \A k \in 1 .. Len(signals_df) - 1 :
              signals_df[k].Signal_Date < signals_df[k + 1].Signal_Date
        /\ \A i \in 1 .. N :
              df["Is_Breakout"][i] /\ i + holding_period > N
                  => data["Date"][i] \notin SignalDates

\* a report of two signals from a table with a third breakout, too near
\* the end of the series to be evaluated
C6_Witness ==
    /\ pc = "reported"
    /\ Len(signals_df) >= 2
    /\ \E i \in 1 .. N : df["Is_Breakout"][i] /\ i + holding_period > N

\* C7: in a finished run the summary's Total_Breakout_Days is the number
\* of rows of the signals table, and its first and last signal dates are
\* the earliest and the latest date of that table (None when it is empty).
C7_SummaryCountsTheReportRows ==
    pc = "reported" =>
        /\ summary_df.Total_Breakout_Days = <<"", "", Len(signals_df), "">>
        /\ IF Len(signals_df) = 0
           THEN /\ summary_df.First_Signal_Date = None
                /\ summary_df.Last_Signal_Date = None
           ELSE /\ summary_df.First_Signal_Date \in SignalDates
                /\ summary_df.Last_Signal_Date \in SignalDates
                /\ \A d \in SignalDates :
                      /\ summary_df.First_Signal_Date <= d
                      /\ d <= summary_df.Last_Signal_Date

\* a summary of two signals on different dates, from a table with a third
\* breakout that has no forward return
C7_Witness ==
    /\ pc = "reported"
    /\ Len(signals_df) >= 2
    /\ summary_df.First_Signal_Date < summary_df.Last_Signal_Date
    /\ \E i \in 1 .. N : df["Is_Breakout"][i] /\ i \notin Evaluated

\* the breakout rows the summary is computed from
Qualifying ==
    {i \in 1 .. N : /\ df["Is_Breakout"][i]
                    /\ NotNa(df["Forward_Returns"][i])
                    /\ NotNa(df["Volume_Ratio"][i])
                    /\ NotNa(df["Price_Change_Pct"][i])}

\* C8: a finished run without a qualifying breakout row has the placeholder
\* summary ("0" signals, "0.00%" and "0.00x" fields, 'N/A' days between
\* signals, no dates) and an empty signals table, and no run raises.
C8_PlaceholderWhenNoSignal ==
    /\ pc # "raised"
    /\ (pc = "reported" /\ Qualifying = {}) =>
          /\ signals_df = <<>>
          /\ summary_df.Total_Breakout_Days = <<"", "", 0, "">>
          /\ \A f \in {"Average_Return", "Win_Rate", "Best_Trade",
                       "Worst_Trade", "Avg_Win_Size", "Avg_Loss_Size",
                       "Avg_Price_Change", "Max_Price_Change",
                       "Min_Price_Change"} :
                summary_df[f] = <<"", "", 0, "%">>
          /\ \A f \in {"Avg_Volume_Ratio", "Max_Volume_Ratio",
                       "Min_Volume_Ratio"} :
                summary_df[f] = <<"", "", 0, "x">>
          /\ summary_df.Avg_Days_Between_Signals = <<"", "N/A", 0, "">>
          /\ summary_df.First_Signal_Date = None
          /\ summary_df.Last_Signal_Date = None

\* a finished run whose only breakouts lie within holding_period rows of
\* the end of the series
C8_Witness ==
    /\ pc = "reported"
    /\ Qualifying = {}
    /\ N > lookback_period
    /\ \E i \in 1 .. N : df["Is_Breakout"][i]

\* the baseline of row i is defined and not zero
BaselineUsable(i) ==
    IsFinite(df["Volume_MA"][i]) /\ df["Volume_MA"][i][1] # 0

\* C9: once calculate_volume_metrics has run, the volume ratio of a row is
\* its volume divided by its baseline when the baseline is defined and not
\* zero, and is undefined, never infinite, when the baseline is undefined
\* or zero, whether the volume is zero or not; such a row is never
\* classified as a breakout.
C9_RatioUndefinedOnZeroBaseline ==
    Has("Volume_Ratio") =>
        \A i \in 1 .. N :
            /\ ~IsInf(df["Volume_Ratio"][i])
            /\ IF BaselineUsable(i)
               THEN /\ df["Volume_Ratio"][i][2] > 0
                    /\ df["Volume_Ratio"][i][1] * df["Volume_MA"][i][1]
                           = data["Volume"][i] * df["Volume_MA"][i][2]
                                 * df["Volume_Ratio"][i][2]
               ELSE IsNaN(df["Volume_Ratio"][i])
            /\ (Has("Is_Breakout") /\ ~BaselineUsable(i))
                   => ~df["Is_Breakout"][i]

\* a classified table with a zero baseline under a positive volume on a
\* row whose price rose enough, and a zero baseline under a zero volume
C9_Witness ==
    /\ Has("Is_Breakout")
    /\ \E i \in 1 .. N : /\ df["Volume_MA"][i] = R(0)
                         /\ data["Volume"][i] > 0
                         /\ PriceAbove(i)
    /\ \E i \in 1 .. N : /\ df["Volume_MA"][i] = R(0)
                         /\ data["Volume"][i] = 0

\* a string of the report shows a number, not "inf" or "nan"
ShowsNumber(string) == string[2] = ""

\* C10: a division by zero on a price is coerced to an undefined value:
\* no infinite or NaN forward return or price change is among the rows the
\* summary and the signals table are built from, and none shows in the
\* summary's return and price-change statistics or in the signals table.
C10_NoNonFinitePriceReachesReport ==
    /\ Has("Forward_Returns") =>
          \A i \in Qualifying \cup Evaluated :
              /\ IsFinite(df["Forward_Returns"][i])
              /\ IsFinite(df["Price_Change_Pct"][i])
    /\ pc = "reported" =>
          /\ \A f \in {"Average_Return", "Best_Trade", "Worst_Trade",
                       "Avg_Win_Size", "Avg_Loss_Size", "Avg_Price_Change",
                       "Max_Price_Change", "Min_Price_Change"} :
                ShowsNumber(summary_df[f])
          /\ \A k \in 1 .. Len(signals_df) :
                /\ ShowsNumber(signals_df[k].Price_Change_Pct)
                /\ ShowsNumber(signals_df[k].Forward_Return)

\* the integer nearest to 100 * n / d (n >= 0, d > 0), ties to the even one
Hundredths(n, d) ==
    CHOOSE q \in 0 .. (100 * n) \div d + 1 :
        \/ 2 * Abs(100 * n - q * d) < d
        \/ 2 * Abs(100 * n - q * d) = d /\ q % 2 = 0

RECURSIVE DenOver(_)
\* a common denominator of the forward returns of a set of rows
DenOver(rows) ==
    IF rows = {} THEN 1
    ELSE LET i == CHOOSE j \in rows : TRUE
         IN  df["Forward_Returns"][i][2] * DenOver(rows \ {i})

RECURSIVE NumOver(_, _)
\* the sum of the forward returns of a set of rows, over the denominator den
NumOver(rows, den) ==
    IF rows = {} THEN 0
    ELSE LET i == CHOOSE j \in rows : TRUE
         IN  df["Forward_Returns"][i][1] * (den \div df["Forward_Returns"][i][2])
             + NumOver(rows \ {i}, den)

\* the string "+x.xx%" / "-x.xx%" / "0.00%" of the mean forward return of a
\* set of rows, "0.00%" for no row
MeanReturnString(rows) ==
    IF rows = {} THEN <<"", "", 0, "%">>
    ELSE LET num == NumOver(rows, DenOver(rows))
             den == DenOver(rows) * Cardinality(rows)
         IN  <<IF num > 0 THEN "+" ELSE IF num < 0 THEN "-" ELSE "", "",
               Hundredths(Abs(num), den), "%">>

Wins == {i \in Qualifying : df["Forward_Returns"][i][1] > 0}
Losses == {i \in Qualifying : df["Forward_Returns"][i][1] <= 0}

\* C11: in a summary of at least one signal, the signals with a positive
\* forward return are the wins and all others, a return of exactly 0
\* included, the losses; Win_Rate shows wins / count * 100, Avg_Win_Size
\* the mean return of the wins and Avg_Loss_Size the mean return of the
\* losses, each 0 when its subset is empty.
C11_WinsAndLossesPartition ==
    (pc = "reported" /\ Qualifying # {}) =>
        /\ summary_df.Win_Rate =
               <<"", "", Hundredths(100 * Cardinality(Wins),
                                    Cardinality(Qualifying)), "%">>
        /\ summary_df.Avg_Win_Size = MeanReturnString(Wins)
        /\ summary_df.Avg_Loss_Size = MeanReturnString(Losses)

\* a summary of a winning signal and of a signal with a return of zero
C11_Witness ==
    /\ pc = "reported"
    /\ Wins # {}
    /\ \E i \in Losses : df["Forward_Returns"][i] = R(0)
    /\ summary_df.Win_Rate = <<"", "", 5000, "%">>

\* the evaluated signal before row i, and the calendar days from it to row i
PreviousSignal(i) ==
    CHOOSE j \in Qualifying : j < i /\ \A k \in Qualifying : k < i => k <= j
Gap(i) == df["Date"][i] - df["Date"][PreviousSignal(i)]

RECURSIVE GapSum(_)
\* the sum of the gaps before each row of a set of rows
GapSum(rows) ==
    IF rows = {} THEN 0
    ELSE LET i == CHOOSE j \in rows : TRUE
         IN  Gap(i) + GapSum(rows \ {i})

\* the evaluated signals that have a signal before them
Followers == {i \in Qualifying : \E j \in Qualifying : j < i}

\* C12 as stated: with at least 2 evaluated signals Avg_Days_Between_Signals
\* shows the mean of the calendar-day gaps between consecutive evaluated
\* signal dates, with fewer it is "N/A".
C12_ShowsTheMeanGap ==
    pc = "reported" =>
        IF Cardinality(Qualifying) >= 2
        THEN /\ ShowsNumber(summary_df.Avg_Days_Between_Signals)
             /\ summary_df.Avg_Days_Between_Signals[3] * Cardinality(Followers)
                    = GapSum(Followers)
        ELSE summary_df.Avg_Days_Between_Signals = Text("N/A")

\* C12: with at least 2 evaluated signals Avg_Days_Between_Signals shows the
\* mean of the calendar-day gaps between consecutive evaluated signal dates
\* truncated to a whole number of days (the largest integer not above the
\* mean), with fewer than 2 it is "N/A".
C12_ShowsTheTruncatedMeanGap ==
    pc = "reported" =>
        IF Cardinality(Qualifying) >= 2
        THEN LET shown == summary_df.Avg_Days_Between_Signals[3]
                 gaps == Cardinality(Followers)
             IN  /\ ShowsNumber(summary_df.Avg_Days_Between_Signals)
                 /\ shown * gaps <= GapSum(Followers)
                 /\ GapSum(Followers) < (shown + 1) * gaps
        ELSE summary_df.Avg_Days_Between_Signals = Text("N/A")

\* a summary of three signals whose two gaps have a mean that is no whole
\* number of days
C12_Witness ==
    /\ pc = "reported"
    /\ Cardinality(Qualifying) = 3
    /\ GapSum(Followers) % 2 = 1
    /\ ShowsNumber(summary_df.Avg_Days_Between_Signals)

\* a rendered field carries the sign of its value sgn (> 0, < 0 or 0):
\* a leading "+" for a positive and a leading "-" for a negative value
Signed(string, sgn) ==
    /\ sgn > 0 => string[1] = "+"
    /\ sgn < 0 => string[1] = "-"

\* the sign of a finite float
SignOf(x) == IF x[1] > 0 THEN 1 ELSE IF x[1] < 0 THEN -1 ELSE 0

\* the row of the signals table for row i of the table
ReportRowOf(i) ==
    CHOOSE k \in 1 .. Len(signals_df) :
        signals_df[k].Signal_Date = df["Date"][i]

\* the signed percentage fields of the summary record other than Win_Rate,
\* and those of the signals table, against the signs of what they show
SignedFields ==
    /\ Signed(summary_df.Average_Return,
              NumOver(Qualifying, DenOver(Qualifying)))
    /\ Signed(summary_df.Best_Trade,
              IF Wins # {} THEN 1
              ELSE IF \E i \in Qualifying : df["Forward_Returns"][i][1] = 0
                   THEN 0 ELSE -Cardinality(Qualifying))
    /\ Signed(summary_df.Worst_Trade,
              IF \E i \in Qualifying : df["Forward_Returns"][i][1] < 0 THEN -1
              ELSE IF Losses # {} THEN 0 ELSE Cardinality(Qualifying))
    /\ Signed(summary_df.Avg_Win_Size, Cardinality(Wins))
    /\ Signed(summary_df.Avg_Loss_Size, NumOver(Losses, DenOver(Losses)))
    /\ \A i \in Qualifying :
          /\ IsFinite(df["Price_Change_Pct"][i])
          /\ IsFinite(df["Forward_Returns"][i])
          /\ Signed(signals_df[ReportRowOf(i)].Price_Change_Pct,
                    SignOf(df["Price_Change_Pct"][i]))
          /\ Signed(signals_df[ReportRowOf(i)].Forward_Return,
                    SignOf(df["Forward_Returns"][i]))
    /\ \A field \in {summary_df.Avg_Price_Change, summary_df.Max_Price_Change,
                     summary_df.Min_Price_Change} :
          \* a breakout row has a price change above a threshold >= 0
          Signed(field, Cardinality(Qualifying))

\* C13 as stated: every percentage-like field of the summary record and of
\* the signals table, Win_Rate included, has a leading "+" when its value
\* is positive and a leading "-" when it is negative.
C13_EveryPercentageIsSigned ==
    pc = "reported" =>
        /\ SignedFields
        /\ Signed(summary_df.Win_Rate, Cardinality(Wins))

\* C13: every percentage-like field of the summary record and of the
\* signals table other than Win_Rate has a leading "+" when its value is
\* positive and a leading "-" when it is negative; Win_Rate, which is never
\* negative, is rendered without a sign, also when it is positive.
C13_EveryPercentageButWinRateIsSigned ==
    pc = "reported" =>
        /\ SignedFields
        /\ summary_df.Win_Rate[1] = ""

\* a summary with a positive win rate, a positive best and a negative worst
\* trade
C13_Witness ==
    /\ pc = "reported"
    /\ Wins # {}
    /\ summary_df.Win_Rate[3] > 0
    /\ summary_df.Best_Trade[1] = "+"
    /\ summary_df.Worst_Trade[1] = "-"
    /\ summary_df.Avg_Loss_Size[1] = "-"

\* nothing has been derived from the table
NothingDerived ==
    /\ pc \in {"fetched", "raised"}
    /\ df = data
    /\ summary_df = NoTable
    /\ signals_df = NoTable

\* C14: a malformed table fails fast: on dates that are not strictly
\* increasing, and on a table without the Volume column, the first stage
\* raises and no annotated table, summary or report exists; on a table
\* without the Close column calculate_price_changes raises, so that no price
\* change, summary or report exists.
C14_MalformedTableRaises ==
    /\ ~StrictlyIncreasing(data["Date"]) => NothingDerived
    /\ "Volume" \notin DOMAIN data => NothingDerived
    /\ "Close" \notin DOMAIN data =>
          /\ pc \in {"fetched", "volume_metrics", "raised"}
          /\ "Price_Change_Pct" \notin DOMAIN df
          /\ summary_df = NoTable
          /\ signals_df = NoTable

\* the table classified with other flags
Reflagged(flags) == [df EXCEPT !["Is_Breakout"] = flags]

\* row i has the same evaluation in two tables
SameEvaluation(a, b, i) ==
    /\ a["Forward_Returns"][i] = b["Forward_Returns"][i]
    /\ a["Exit_Date"][i] = b["Exit_Date"][i]
    /\ a["Exit_Price"][i] = b["Exit_Price"][i]

\* C15: signals are evaluated independently: on a table with the same dates
\* and closes and any other flags on the rows other than i,
\* calculate_forward_returns gives row i the forward return, exit date and
\* exit price it has here; and every breakout row with holding_period rows
\* after it, one inside the holding window of an earlier breakout included,
\* has its exit holding_period rows later.
C15_SignalsEvaluatedIndependently ==
    pc = "forward_returns" =>
        /\ \A flags \in [1 .. N -> BOOLEAN] :
              LET other == calculate_forward_returns(Reflagged(flags),
                                                     holding_period)
              IN  \A i \in 1 .. N :
                      flags[i] = df["Is_Breakout"][i] =>
                          SameEvaluation(other, df, i)
        /\ \A i \in 1 .. N :
              (df["Is_Breakout"][i] /\ i + holding_period <= N) =>
                  /\ df["Exit_Date"][i] = df["Date"][i + holding_period]
                  /\ df["Exit_Price"][i] = R(df["Close"][i + holding_period])

\* two breakouts, the second inside the holding window of the first, both
\* evaluated
C15_Witness ==
    /\ pc = "forward_returns"
    /\ \E i, j \in 1 .. N :
          /\ i < j /\ j < i + holding_period
          /\ df["Is_Breakout"][i] /\ df["Is_Breakout"][j]
          /\ NotNa(df["Forward_Returns"][i])
          /\ NotNa(df["Forward_Returns"][j])
          /\ df["Exit_Date"][j] = df["Date"][j + holding_period]

\* the columns a stage adds, by the position the run reaches with it
OwnColumns(reached) ==
    CASE reached = "volume_metrics" -> {"Volume_MA", "Volume_Ratio"}
      [] reached = "price_changes" -> {"Price_Change_Pct"}
      [] reached = "breakout_signals" -> {"Is_Breakout"}
      [] reached = "forward_returns" ->
             {"Forward_Returns", "Exit_Date", "Exit_Price"}

\* the table a stage was called with and the table it returned
StagePreserves(input, output, own) ==
    /\ DOMAIN output = DOMAIN input \cup own
    /\ own \cap DOMAIN input = {}
    /\ \A c \in DOMAIN input : output[c] = input[c]
    /\ \A c \in own : Len(output[c]) = Len(input["Date"])

\* C16: each of the four stages leaves the table passed to it as it was and
\* returns a table with the same rows in the same order, every column the
\* table had unchanged, and the stage's own columns added and no other.
C16_StagesOnlyAddTheirColumns ==
    [][pc' \in {"volume_metrics", "price_changes", "breakout_signals",
                "forward_returns"} =>
          /\ data' = data
          /\ StagePreserves(IF pc = "fetched" THEN data ELSE df, df',
                            OwnColumns(pc'))]_vars

\* all four stages have run on a table of several rows, the last of them
\* having evaluated a signal, and the fetched columns are still what was
\* fetched
C16_Witness ==
    /\ pc = "forward_returns"
    /\ N >= 3
    /\ DOMAIN df = DOMAIN data \cup {"Volume_MA", "Volume_Ratio",
                                     "Price_Change_Pct", "Is_Breakout",
                                     "Forward_Returns", "Exit_Date",
                                     "Exit_Price"}
    /\ \A c \in DOMAIN data : df[c] = data[c]
    /\ \E i \in 1 .. N : NotNa(df["Forward_Returns"][i])

\* the rows of the fetched table after end_date
RowsAfterEnd == {k \in 1 .. Len(data["Date"]) : data["Date"][k] > end_date}

\* C17: for every holding period of the slider and every end date that
\* validate_dates accepts, the fetched table has at least holding_period
\* rows after end_date, so that a breakout on end_date has its exit row in
\* the table.
C17_FetchCoversTheHoldingPeriod ==
    pc = "fetched" =>
        /\ Cardinality(RowsAfterEnd) >= holding_period
        /\ \A k \in 1 .. Len(data["Date"]) :
              data["Date"][k] = end_date =>
                  k + holding_period <= Len(data["Date"])

\* the three stored results are empty
AllEmpty ==
    /\ session_data = NoTable
    /\ summary_df = NoTable
    /\ signals_df = NoTable

\* the three stored results are those of a run on the symbol t
ComputedFor(t) ==
    LET fetched == get_stock_data(t, start_date, end_date, holding_period)
        annotated ==
            calculate_forward_returns(
                identify_breakout_signals(
                    calculate_price_changes(
                        calculate_volume_metrics(fetched, lookback_period)),
                    volume_threshold, price_threshold),
                holding_period)
    IN  /\ session_data = annotated
        /\ summary_df = generate_breakout_summary(annotated)
        /\ signals_df = SignalsTable(annotated)

\* C18: after any sequence of stock selections, "Apply Stock Selection" and
\* "Run Analysis" clicks, the stored data, summary and signals table are all
\* empty or are all those of a run on the applied selected_ticker, never
\* those of another symbol or of a pending selection.
C18_ResultsBelongToTheAppliedTicker ==
    AllEmpty \/ ComputedFor(selected_ticker)

\* results of a run on a symbol that was applied, stored while another
\* symbol is pending in the selectbox, with a signal in the report
C18_Witness ==
    /\ pc = "reported"
    /\ selected_ticker # "NVDA"
    /\ temp_ticker # selected_ticker
    /\ ~AllEmpty
    /\ Len(signals_df) > 0
    /\ ComputedFor(selected_ticker)
    /\ ~ComputedFor(temp_ticker)

====
